---- MODULE Spec2Model ----
(***************************************************************************)
(* A model of the gitoid / gitbom crates of omnibor-rs.                    *)
(*                                                                         *)
(*   SpecBom   the persistent identifier collection (gitbom/src/lib.rs)    *)
(*   SpecHash  gitoid_from_buffer, stream_len and new_from_reader          *)
(*   SpecUrl   GitOid::url and GitOidUrlParser                             *)
(*                                                                         *)
(* Text is a sequence of one-character strings, a byte is a number in      *)
(* 0..255.                                                                 *)
(***************************************************************************)
EXTENDS Integers, Sequences, FiniteSets, TLC

VARIABLES
    \* ---- gitbom ----
    handles,      \* every GitBom value obtained so far: handles[h] is its git_oids
    bomOp,        \* the last GitBom operation that ran
    ret,          \* the Vector returned by get_sorted_oids, when it was the last operation
    \* ---- gitoid: hashing ----
    pc,               \* position in the call being executed
    input,            \* the arguments of the call (never written after Init)
    stream,           \* the reader: [content, pos]
    old_pos,          \* stream_len: let old_pos
    len,              \* stream_len: let len
    expected_length,  \* gitoid_from_buffer: expected_length
    amount_read,      \* gitoid_from_buffer: amount_read
    digester,         \* the bytes fed to the digest so far, in update order
    seeks,            \* the seeks performed on the stream, in order
    result,           \* the value the call returned
    \* ---- gitoid: URL codec ----
    upc,              \* position in url() / GitOidUrlParser::parse
    uin,              \* the arguments (never written after Init)
    url,              \* the Url handed to the parser: [scheme, path]
    segments,         \* GitOidUrlParser.segments: the segments not yet taken
    uresult           \* the value parse returned

varsBom == <<handles, bomOp, ret>>
varsHash == <<pc, input, stream, old_pos, len, expected_length, amount_read, digester, seeks, result>>
varsUrl == <<upc, uin, url, segments, uresult>>
vars == <<handles, bomOp, ret, pc, input, stream, old_pos, len, expected_length, amount_read,
          digester, seeks, result, upc, uin, url, segments, uresult>>

----------------------------------------------------------------------------
(* Bounds *)

MaxHandles == 2     \* GitBom values kept alive at once
MaxBatch == 2       \* longest identifier sequence handed to add_many
NumOids == 3        \* identifiers available to the collection
MaxContentLen == 11 \* longest content a reader yields
MaxSegments == 3    \* most path segments of a URL handed to the parser

----------------------------------------------------------------------------
(* Generic helpers *)

Range(s) == {s[i] : i \in 1..Len(s)}

Min(a, b) == IF a < b THEN a ELSE b

SeqsUpTo(S, n) == UNION {[1..k -> S] : k \in 0..n}

Perms(S) == {p \in [1..Cardinality(S) -> S] : Range(p) = S}

----------------------------------------------------------------------------
(* Capabilities *)

output_size(H) == IF H = "sha1" THEN 20 ELSE 32

\* A digest of n bytes: byte b everywhere except byte c at position k.
Digest(n, k, b, c) == [i \in 1..n |-> IF i = k THEN c ELSE b]

----------------------------------------------------------------------------
(* GitOid: #[derive(PartialOrd, Ord, Eq, PartialEq)] over (_phantom, value)  *)

new_from_hash(value) == [value |-> value]

\* Lexicographic comparison of two byte sequences, as Ord for arrays/slices.
RECURSIVE cmp_bytes(_, _)
cmp_bytes(a, b) ==
    IF a = <<>> /\ b = <<>> THEN 0
    ELSE IF a = <<>> THEN -1
    ELSE IF b = <<>> THEN 1
    ELSE IF Head(a) < Head(b) THEN -1
    ELSE IF Head(a) > Head(b) THEN 1
    ELSE cmp_bytes(Tail(a), Tail(b))

\* The derived Ord of GitOid: PhantomData compares equal, then the value.
gitoid_cmp(x, y) == cmp_bytes(x.value, y.value)

\* Identifiers handed to the collection: sha256 digests that differ from each
\* other in one byte, at positions 14, 27, 8, 21, ...
BomOid(j) == new_from_hash(Digest(output_size("sha256"), ((j * 13) % 32) + 1, 7, 7 + j))

BomOids == {BomOid(j) : j \in 1..NumOids}

----------------------------------------------------------------------------
(* GitBom *)

\* im::HashSet::update: a new set with the value added, the receiver untouched.
update(set, gitoid) == set \cup {gitoid}

\* The for loop of add_many over the clone of self.git_oids.
RECURSIVE add_many_loop(_, _)
add_many_loop(updated, gitoids) ==
    IF gitoids = <<>> THEN updated
    ELSE add_many_loop(update(updated, Head(gitoids)), Tail(gitoids))

add_many_fresh(git_oids, gitoids) == add_many_loop({}, gitoids)

\* GitBom::add_many: the git_oids of the returned GitBom.
add_many(git_oids, gitoids) == add_many_loop(git_oids, gitoids)

\* GitBom::add
add(git_oids, gitoid) == add_many(git_oids, <<gitoid>>)

new == {}

\* Vector::sort by the identifiers' Ord (insertion sort).
RECURSIVE insert_sorted(_, _)
insert_sorted(s, x) ==
    IF s = <<>> THEN <<x>>
    ELSE IF gitoid_cmp(x, Head(s)) < 0 THEN <<x>> \o s
    ELSE <<Head(s)>> \o insert_sorted(Tail(s), x)

RECURSIVE sort(_)
sort(v) == IF v = <<>> THEN <<>> ELSE insert_sorted(sort(Tail(v)), Head(v))

get_sorted_oids_unsorted(collected) == collected

\* GitBom::get_sorted_oids, given the order into_iter() produced.
get_sorted_oids(collected) == sort(collected)

\* `Self { git_oids: updated }`: add_many returns a new GitBom; &self is not written.
PublishInPlace(hs, h, updated) == Append([hs EXCEPT ![h] = updated], updated)

Publish(hs, h, updated) == Append(hs, updated)

NoOp == [op |-> "none", src |-> 0, dst |-> 0, xs |-> <<>>]

BomIdle ==
    /\ handles = <<>>
    /\ bomOp = NoOp
    /\ ret = <<>>

NoResult == [kind |-> "none"]

NoInput == [entry |-> "none"]

HashIdle ==
    /\ pc = "idle"
    /\ input = NoInput
    /\ stream = [content |-> <<>>, pos |-> 0]
    /\ old_pos = 0
    /\ len = 0
    /\ expected_length = 0
    /\ amount_read = 0
    /\ digester = <<>>
    /\ seeks = <<>>
    /\ result = NoResult

NoUrl == [scheme |-> <<>>, path |-> <<>>]

UrlIdle ==
    /\ upc = "idle"
    /\ uin = NoInput
    /\ url = NoUrl
    /\ segments = <<>>
    /\ uresult = NoResult

InitBom ==
    /\ BomIdle
    /\ HashIdle
    /\ UrlIdle

New ==
    /\ Len(handles) < MaxHandles
    /\ handles' = Append(handles, new)
    /\ bomOp' = [op |-> "new", src |-> 0, dst |-> Len(handles) + 1, xs |-> <<>>]
    /\ ret' = <<>>
    /\ UNCHANGED <<varsHash, varsUrl>>

Add ==
    \E h \in 1..Len(handles), x \in BomOids :
        /\ Len(handles) < MaxHandles
        /\ handles' = Publish(handles, h, add(handles[h], x))
        /\ bomOp' = [op |-> "add", src |-> h, dst |-> Len(handles) + 1, xs |-> <<x>>]
        /\ ret' = <<>>
        /\ UNCHANGED <<varsHash, varsUrl>>

AddMany ==
    \E h \in 1..Len(handles), xs \in SeqsUpTo(BomOids, MaxBatch) :
        /\ Len(handles) < MaxHandles
        /\ handles' = Publish(handles, h, add_many(handles[h], xs))
        /\ bomOp' = [op |-> "add_many", src |-> h, dst |-> Len(handles) + 1, xs |-> xs]
        /\ ret' = <<>>
        /\ UNCHANGED <<varsHash, varsUrl>>

\* new_from_iterator / from_iter: GitBom::new().add_many(gitoids); the
\* temporary `me` is dropped.
NewFromIterator ==
    \E xs \in SeqsUpTo(BomOids, MaxBatch) :
        /\ Len(handles) < MaxHandles
        /\ handles' = Append(handles, add_many(new, xs))
        /\ bomOp' = [op |-> "new_from_iterator", src |-> 0, dst |-> Len(handles) + 1, xs |-> xs]
        /\ ret' = <<>>
        /\ UNCHANGED <<varsHash, varsUrl>>

\* The iteration order of the hash set is not specified: any permutation.
GetSortedOids ==
    \E h \in 1..Len(handles) :
        \E collected \in Perms(handles[h]) :
            /\ ret' = get_sorted_oids(collected)
            /\ bomOp' = [op |-> "get_sorted_oids", src |-> h, dst |-> 0, xs |-> <<>>]
            /\ UNCHANGED handles
            /\ UNCHANGED <<varsHash, varsUrl>>

NextBom ==
    \/ New
    \/ Add
    \/ AddMany
    \/ NewFromIterator
    \/ GetSortedOids

SpecBom == InitBom /\ [][NextBom]_vars

----------------------------------------------------------------------------
(* Text and bytes *)

Digits == <<"0", "1", "2", "3", "4", "5", "6", "7", "8", "9">>

Lower == <<"a", "b", "c", "d", "e", "f", "g", "h", "i", "j", "k", "l", "m",
           "n", "o", "p", "q", "r", "s", "t", "u", "v", "w", "x", "y", "z">>

UpperHex == <<"A", "B", "C", "D", "E", "F">>

IndexOf(seq, c) == CHOOSE i \in 1..Len(seq) : seq[i] = c

\* The ASCII code of a character ("NUL" stands for the character \0).
Ascii(c) ==
    IF c = "NUL" THEN 0
    ELSE IF c = " " THEN 32
    ELSE IF c = ":" THEN 58
    ELSE IF c \in Range(Digits) THEN 47 + IndexOf(Digits, c)
    ELSE IF c \in Range(UpperHex) THEN 64 + IndexOf(UpperHex, c)
    ELSE 96 + IndexOf(Lower, c)

\* str::as_bytes
as_bytes(text) == [i \in 1..Len(text) |-> Ascii(text[i])]

\* Display for usize: decimal, most significant digit first.
RECURSIVE to_decimal(_)
to_decimal(n) ==
    IF n < 10 THEN <<Digits[n + 1]>>
    ELSE to_decimal(n \div 10) \o <<Digits[(n % 10) + 1]>>

\* O::NAME
ObjectTypeName(O) ==
    CASE O = "Blob" -> <<"b", "l", "o", "b">>
      [] O = "Tree" -> <<"t", "r", "e", "e">>
      [] O = "Commit" -> <<"c", "o", "m", "m", "i", "t">>
      [] O = "Tag" -> <<"t", "a", "g">>

ObjectTypes == {"Blob", "Tree", "Commit", "Tag"}

\* H::NAME
HashAlgorithmName(H) ==
    CASE H = "sha1" -> <<"s", "h", "a", "1">>
      [] H = "sha256" -> <<"s", "h", "a", "2", "5", "6">>

HashAlgorithms == {"sha1", "sha256"}

----------------------------------------------------------------------------
(* Hashing: gitoid_from_buffer, stream_len, new_from_bytes, new_from_reader *)

BufSize == 4096

\* The content a reader yields: n bytes counting up from b (mod 256).
ContentOf(n, b) == [i \in 1..n |-> (b + i - 1) % 256]

Contents == {ContentOf(n, b) : n \in 0..MaxContentLen, b \in {65, 250}}

format_prefix_no_nul(name, length) == name \o <<" ">> \o to_decimal(length)

\* format!("{} {}\0", O::NAME, expected_length)
format_prefix(name, length) == name \o <<" ">> \o to_decimal(length) \o <<"NUL">>

\* digest finalize: the digest is a function of the algorithm and of the bytes
\* fed, and nothing else; its length is the algorithm's output size.
finalize(H, fed) == [alg |-> H, of |-> fed]

hash_len(hash) == output_size(hash.alg)

length_differs_short_only(amount, expected) == amount < expected

\* if amount_read != expected_length
length_differs(amount, expected) == amount # expected

needs_restore_never(old, end) == FALSE

\* stream_len: if old_pos != len
needs_restore(old, end) == old # end

restore_target_rewind(old) == 0

\* stream_len: SeekFrom::Start(old_pos)
restore_target(old) == old

IoError == [kind |-> "Io"]

BadLength(expected, actual) == [kind |-> "BadLength", expected |-> expected, actual |-> actual]

UnexpectedHashLength(expected, observed) ==
    [kind |-> "UnexpectedHashLength", expected |-> expected, observed |-> observed]

Ok(gitoid) == [kind |-> "Ok", gitoid |-> gitoid]

HashInputs ==
    {[entry |-> "bytes", H |-> H, O |-> O, content |-> c, pos |-> 0, L |-> Len(c)] :
        H \in HashAlgorithms, O \in ObjectTypes, c \in Contents}
    \cup
    {[entry |-> "buffer", H |-> H, O |-> O, content |-> c, pos |-> 0, L |-> L] :
        H \in HashAlgorithms, O \in ObjectTypes, c \in Contents, L \in 0..(MaxContentLen + 1)}
    \cup
    UNION {{[entry |-> "reader", H |-> H, O |-> O, content |-> c, pos |-> p, L |-> Len(c)] :
              H \in HashAlgorithms, O \in ObjectTypes, p \in 0..(Len(c) + 1)} : c \in Contents}

InitHash ==
    /\ BomIdle
    /\ UrlIdle
    /\ pc = "call"
    /\ input \in HashInputs
    /\ stream = [content |-> input.content, pos |-> input.pos]
    /\ old_pos = 0
    /\ len = 0
    /\ expected_length = 0
    /\ amount_read = 0
    /\ digester = <<>>
    /\ seeks = <<>>
    /\ result = NoResult

Fail(err) ==
    /\ pc' = "done"
    /\ result' = err

\* new_from_bytes: expected_length = content.len()
NewFromBytes ==
    /\ pc = "call"
    /\ input.entry = "bytes"
    /\ expected_length' = Len(input.content)
    /\ pc' = "prefix"
    /\ UNCHANGED <<input, stream, old_pos, len, amount_read, digester, seeks, result>>
    /\ UNCHANGED <<varsBom, varsUrl>>

\* gitoid_from_buffer called with a reader and a declared length
GitoidFromBuffer ==
    /\ pc = "call"
    /\ input.entry = "buffer"
    /\ expected_length' = input.L
    /\ pc' = "prefix"
    /\ UNCHANGED <<input, stream, old_pos, len, amount_read, digester, seeks, result>>
    /\ UNCHANGED <<varsBom, varsUrl>>

\* new_from_reader: enters stream_len
NewFromReader ==
    /\ pc = "call"
    /\ input.entry = "reader"
    /\ pc' = "stream_position"
    /\ UNCHANGED <<input, stream, old_pos, len, expected_length, amount_read, digester, seeks,
                   result>>
    /\ UNCHANGED <<varsBom, varsUrl>>

\* let old_pos = stream.stream_position()?;
StreamPosition ==
    /\ pc = "stream_position"
    /\ \E ok \in BOOLEAN :
        IF ok
        THEN /\ old_pos' = stream.pos
             /\ pc' = "seek_end"
             /\ UNCHANGED result
        ELSE /\ Fail(IoError)
             /\ UNCHANGED old_pos
    /\ UNCHANGED <<input, stream, len, expected_length, amount_read, digester, seeks>>
    /\ UNCHANGED <<varsBom, varsUrl>>

\* let len = stream.seek(SeekFrom::End(0))?;
SeekEnd ==
    /\ pc = "seek_end"
    /\ \E ok \in BOOLEAN :
        IF ok
        THEN /\ len' = Len(stream.content)
             /\ stream' = [stream EXCEPT !.pos = Len(stream.content)]
             /\ seeks' = Append(seeks, <<"End", 0>>)
             /\ pc' = "restore"
             /\ UNCHANGED result
        ELSE /\ Fail(IoError)
             /\ UNCHANGED <<len, stream, seeks>>
    /\ UNCHANGED <<input, old_pos, expected_length, amount_read, digester>>
    /\ UNCHANGED <<varsBom, varsUrl>>

\* if old_pos != len { stream.seek(SeekFrom::Start(old_pos))?; }  Ok(len)
\* and, back in new_from_reader, expected_length = len as usize
Restore ==
    /\ pc = "restore"
    /\ IF needs_restore(old_pos, len)
       THEN \E ok \in BOOLEAN :
            IF ok
            THEN /\ stream' = [stream EXCEPT !.pos = restore_target(old_pos)]
                 /\ seeks' = Append(seeks, <<"Start", restore_target(old_pos)>>)
                 /\ expected_length' = len
                 /\ pc' = "prefix"
                 /\ UNCHANGED result
            ELSE /\ Fail(IoError)
                 /\ UNCHANGED <<stream, seeks, expected_length>>
       ELSE /\ expected_length' = len
            /\ pc' = "prefix"
            /\ UNCHANGED <<stream, seeks, result>>
    /\ UNCHANGED <<input, old_pos, len, amount_read, digester>>
    /\ UNCHANGED <<varsBom, varsUrl>>

\* let prefix = format!(...); amount_read = 0; digester.update(prefix.as_bytes());
Prefix ==
    /\ pc = "prefix"
    /\ amount_read' = 0
    /\ digester' = digester \o as_bytes(format_prefix(ObjectTypeName(input.O), expected_length))
    /\ pc' = "read"
    /\ UNCHANGED <<input, stream, old_pos, len, expected_length, seeks, result>>
    /\ UNCHANGED <<varsBom, varsUrl>>

Remaining == IF stream.pos >= Len(stream.content) THEN 0 ELSE Len(stream.content) - stream.pos

\* One turn of the loop: reader.read(&mut buf)? returns 0 at the end of the
\* content, and otherwise any size from 1 to what the buffer and the content
\* allow; an in-memory reader cannot fail.
Read ==
    /\ pc = "read"
    /\ \/ /\ Remaining = 0
          /\ pc' = "check"
          /\ UNCHANGED <<stream, digester, amount_read, result>>
       \/ \E size \in 1..Min(Remaining, BufSize) :
          /\ digester' = digester \o SubSeq(stream.content, stream.pos + 1, stream.pos + size)
          /\ amount_read' = amount_read + size
          /\ stream' = [stream EXCEPT !.pos = stream.pos + size]
          /\ UNCHANGED <<pc, result>>
       \/ /\ input.entry # "bytes"
          /\ Fail(IoError)
          /\ UNCHANGED <<stream, digester, amount_read>>
    /\ UNCHANGED <<input, old_pos, len, expected_length, seeks>>
    /\ UNCHANGED <<varsBom, varsUrl>>

\* The length check, finalize, the digest length check, Ok(new_from_hash(hash))
Check ==
    /\ pc = "check"
    /\ LET hash == finalize(input.H, digester) IN
       IF length_differs(amount_read, expected_length)
       THEN Fail(BadLength(expected_length, amount_read))
       ELSE IF hash_len(hash) # output_size(input.H)
       THEN Fail(UnexpectedHashLength(output_size(input.H), hash_len(hash)))
       ELSE Fail(Ok(new_from_hash(hash)))
    /\ UNCHANGED <<input, stream, old_pos, len, expected_length, amount_read, digester, seeks>>
    /\ UNCHANGED <<varsBom, varsUrl>>

NextHash ==
    \/ NewFromBytes
    \/ GitoidFromBuffer
    \/ NewFromReader
    \/ StreamPosition
    \/ SeekEnd
    \/ Restore
    \/ Prefix
    \/ Read
    \/ Check

SpecHash == InitHash /\ [][NextHash]_vars

----------------------------------------------------------------------------
(* URL codec: GitOid::url, GitOidUrlParser *)

HexLower == <<"0", "1", "2", "3", "4", "5", "6", "7", "8", "9", "a", "b", "c", "d", "e", "f">>

\* Display for HashRef: two lowercase hex digits per byte.
to_hex(bytes) ==
    [i \in 1..(2 * Len(bytes)) |->
        IF i % 2 = 1 THEN HexLower[(bytes[(i + 1) \div 2] \div 16) + 1]
        ELSE HexLower[(bytes[i \div 2] % 16) + 1]]

\* hex: val(c), the value of a hex digit of either case, -1 for any other character.
val(c) ==
    IF c \in Range(HexLower) THEN IndexOf(HexLower, c) - 1
    ELSE IF c \in Range(UpperHex) THEN IndexOf(UpperHex, c) + 9
    ELSE -1

HexError(e) == [kind |-> "Hex", error |-> e]

\* hex::decode_to_slice(data, out) with out of out_len bytes: the bytes, or the
\* FromHexError.
decode_to_slice(data, out_len) ==
    IF Len(data) % 2 # 0 THEN HexError("OddLength")
    ELSE IF Len(data) \div 2 # out_len THEN HexError("InvalidStringLength")
    ELSE IF \E i \in 1..Len(data) : val(data[i]) < 0 THEN HexError("InvalidHexCharacter")
    ELSE [kind |-> "Decoded",
          value |-> [i \in 1..out_len |-> val(data[2 * i - 1]) * 16 + val(data[2 * i])]]

Colon == ":"

HasColon(text) == \E i \in 1..Len(text) : text[i] = Colon

FirstColon(text) == CHOOSE i \in 1..Len(text) :
    text[i] = Colon /\ \A j \in 1..(i - 1) : text[j] # Colon

\* str::split(':'), collected: at least one segment, empty ones included.
RECURSIVE split(_)
split(text) ==
    IF ~HasColon(text) THEN <<text>>
    ELSE <<SubSeq(text, 1, FirstColon(text) - 1)>>
         \o split(SubSeq(text, FirstColon(text) + 1, Len(text)))

\* Url::parse of "<scheme>:<opaque path>"
url_parse(s) ==
    [scheme |-> SubSeq(s, 1, FirstColon(s) - 1),
     path |-> SubSeq(s, FirstColon(s) + 1, Len(s))]

GitoidScheme == <<"g", "i", "t", "o", "i", "d">>

url_format_swapped(O, H, gitoid) ==
    GitoidScheme \o <<Colon>> \o HashAlgorithmName(H) \o <<Colon>> \o ObjectTypeName(O)
        \o <<Colon>> \o to_hex(gitoid.value)

\* format!("gitoid:{}:{}:{}", O::NAME, H::NAME, self.hash())
url_format(O, H, gitoid) ==
    GitoidScheme \o <<Colon>> \o ObjectTypeName(O) \o <<Colon>> \o HashAlgorithmName(H)
        \o <<Colon>> \o to_hex(gitoid.value)

None == [some |-> FALSE]

Some(v) == [some |-> TRUE, v |-> v]

some_always(s) == Some(s)

\* s.is_empty().not().then_some(s)
some_if_not_empty(s) == IF s = <<>> THEN None ELSE Some(s)

\* segments.next().and_then(some_if_not_empty)
next_segment(segs) == IF segs = <<>> THEN None ELSE some_if_not_empty(Head(segs))

\* The iterator after next(): a finished iterator stays finished.
advance(segs) == IF segs = <<>> THEN <<>> ELSE Tail(segs)

InvalidScheme(u) == [kind |-> "InvalidScheme", url |-> u]

MissingObjectType(u) == [kind |-> "MissingObjectType", url |-> u]

MissingHashAlgorithm(u) == [kind |-> "MissingHashAlgorithm", url |-> u]

MissingHash(u) == [kind |-> "MissingHash", url |-> u]

MismatchedObjectType(expected, observed) ==
    [kind |-> "MismatchedObjectType", expected |-> expected, observed |-> observed]

MismatchedHashAlgorithm(expected, observed) ==
    [kind |-> "MismatchedHashAlgorithm", expected |-> expected, observed |-> observed]

\* The object types the parser is asked for, and the segments a URL is made of.
UrlObjectTypes == {"Blob", "Tree"}

DigestSamples(H) ==
    {Digest(output_size(H), k, b, c) : k \in {1, output_size(H)}, b \in {0, 171}, c \in {16, 255}}

HexOfSize(H) == to_hex(Digest(output_size(H), 2, 10, 203))

OtherScheme == <<"h", "t", "t", "p">>

RawSegments ==
    {<<>>, <<"a", "b", "c">>, [HexOfSize("sha256") EXCEPT ![5] = "z"]}
    \cup {ObjectTypeName(O) : O \in UrlObjectTypes}
    \cup {HashAlgorithmName(H) : H \in HashAlgorithms}
    \cup {HexOfSize(H) : H \in HashAlgorithms}

RECURSIVE Join(_)
Join(segs) ==
    IF segs = <<>> THEN <<>>
    ELSE IF Len(segs) = 1 THEN segs[1]
    ELSE segs[1] \o <<Colon>> \o Join(Tail(segs))

\* A call is either url() on a GitOid<H, O> followed by a parse expecting
\* <HE, OE>, or a parse of a given Url expecting <HE, OE>.
UrlInputs ==
    UNION {{[entry |-> "gitoid", H |-> H, O |-> O, HE |-> HE, OE |-> OE,
             gitoid |-> new_from_hash(d), scheme |-> <<>>, segs |-> <<>>] :
              O \in UrlObjectTypes, HE \in HashAlgorithms, OE \in UrlObjectTypes,
              d \in DigestSamples(H)} : H \in HashAlgorithms}
    \cup
    {[entry |-> "url", H |-> HE, O |-> OE, HE |-> HE, OE |-> OE,
      gitoid |-> new_from_hash(<<>>), scheme |-> sc, segs |-> segs] :
        HE \in HashAlgorithms, OE \in UrlObjectTypes, sc \in {GitoidScheme, OtherScheme},
        segs \in SeqsUpTo(RawSegments, MaxSegments)}

InitUrl ==
    /\ BomIdle
    /\ HashIdle
    /\ uin \in UrlInputs
    /\ upc = IF uin.entry = "gitoid" THEN "url" ELSE "new"
    /\ url = IF uin.entry = "gitoid" THEN NoUrl
             ELSE [scheme |-> uin.scheme, path |-> Join(uin.segs)]
    /\ segments = <<>>
    /\ uresult = NoResult

UFail(err) ==
    /\ upc' = "done"
    /\ uresult' = err

\* GitOid::url
UrlOf ==
    /\ upc = "url"
    /\ url' = url_parse(url_format(uin.O, uin.H, uin.gitoid))
    /\ upc' = "new"
    /\ UNCHANGED <<uin, segments, uresult>>
    /\ UNCHANGED <<varsBom, varsHash>>

\* GitOidUrlParser::new
ParserNew ==
    /\ upc = "new"
    /\ segments' = split(url.path)
    /\ upc' = "validate_url_scheme"
    /\ UNCHANGED <<uin, url, uresult>>
    /\ UNCHANGED <<varsBom, varsHash>>

ValidateUrlScheme ==
    /\ upc = "validate_url_scheme"
    /\ IF url.scheme # GitoidScheme
       THEN UFail(InvalidScheme(url))
       ELSE /\ upc' = "validate_object_type"
            /\ UNCHANGED uresult
    /\ UNCHANGED <<uin, url, segments>>
    /\ UNCHANGED <<varsBom, varsHash>>

ValidateObjectType ==
    /\ upc = "validate_object_type"
    /\ LET object_type == next_segment(segments) IN
       IF ~object_type.some
       THEN UFail(MissingObjectType(url))
       ELSE IF object_type.v # ObjectTypeName(uin.OE)
       THEN UFail(MismatchedObjectType(ObjectTypeName(uin.OE), object_type.v))
       ELSE /\ upc' = "validate_hash_algorithm"
            /\ UNCHANGED uresult
    /\ segments' = advance(segments)
    /\ UNCHANGED <<uin, url>>
    /\ UNCHANGED <<varsBom, varsHash>>

ValidateHashAlgorithm ==
    /\ upc = "validate_hash_algorithm"
    /\ LET hash_algorithm == next_segment(segments) IN
       IF ~hash_algorithm.some
       THEN UFail(MissingHashAlgorithm(url))
       ELSE IF hash_algorithm.v # HashAlgorithmName(uin.HE)
       THEN UFail(MismatchedHashAlgorithm(HashAlgorithmName(uin.HE), hash_algorithm.v))
       ELSE /\ upc' = "parse_hash"
            /\ UNCHANGED uresult
    /\ segments' = advance(segments)
    /\ UNCHANGED <<uin, url>>
    /\ UNCHANGED <<varsBom, varsHash>>

\* parse_hash, then .map(GitOid::new_from_hash). value is an array of
\* output_size bytes, so value.len() is output_size whatever was decoded.
ParseHash ==
    /\ upc = "parse_hash"
    /\ LET hex_str == next_segment(segments)
           expected_size == output_size(uin.HE)
           value_len == output_size(uin.HE)
           decoded == decode_to_slice(hex_str.v, value_len)
       IN
       IF ~hex_str.some
       THEN UFail(MissingHash(url))
       ELSE IF decoded.kind = "Hex"
       THEN UFail(decoded)
       ELSE IF value_len # expected_size
       THEN UFail(UnexpectedHashLength(expected_size, value_len))
       ELSE UFail(Ok(new_from_hash(decoded.value)))
    /\ segments' = advance(segments)
    /\ UNCHANGED <<uin, url>>
    /\ UNCHANGED <<varsBom, varsHash>>

NextUrl ==
    \/ UrlOf
    \/ ParserNew
    \/ ValidateUrlScheme
    \/ ValidateObjectType
    \/ ValidateHashAlgorithm
    \/ ParseHash

SpecUrl == InitUrl /\ [][NextUrl]_vars

----------------------------------------------------------------------------
(* Properties of the collection (SpecBom) *)

C6_AddIsUnion ==
    bomOp.op = "add" =>
        LET c == handles[bomOp.src]
            x == bomOp.xs[1]
            cx == handles[bomOp.dst]
        IN /\ cx = c \cup {x}
           /\ x \in c => cx = c
           /\ add(cx, x) = cx

\* C6 witness: a duplicate add on a collection with another member.
C6_Witness ==
    /\ bomOp.op = "add"
    /\ bomOp.xs[1] \in handles[bomOp.src]
    /\ Cardinality(handles[bomOp.src]) >= 2

StrictlyAscending(v) == \A i \in 1..(Len(v) - 1) : gitoid_cmp(v[i], v[i + 1]) < 0

\* C7: new().add_many(xs) has the distinct elements of xs as members, and
\* get_sorted_oids returns the members, each once, in ascending order, whatever
\* order the set iterated in; the empty collection gives the empty sequence.
C7_SortedDistinct ==
    /\ bomOp.op = "new_from_iterator" => handles[bomOp.dst] = Range(bomOp.xs)
    /\ bomOp.op = "get_sorted_oids" =>
        /\ Range(ret) = handles[bomOp.src]
        /\ Len(ret) = Cardinality(handles[bomOp.src])
        /\ StrictlyAscending(ret)
        /\ handles[bomOp.src] = {} => ret = <<>>

\* C7 witness: three identifiers were sorted.
C7_Witness ==
    /\ bomOp.op = "get_sorted_oids"
    /\ Len(ret) >= 3

----------------------------------------------------------------------------
(* Properties of hashing (SpecHash) *)

Returned == pc = "done"

\* C3: a reader that yields L' bytes in all, L' different from the declared
\* length L, makes the computation fail with BadLength{expected: L, actual: L'}.
C3_LengthIntegrity ==
    (/\ Returned
     /\ input.entry = "buffer"
     /\ result # IoError
     /\ Len(input.content) # input.L)
    => result = BadLength(input.L, Len(input.content))

\* C3 witness: a reader that yielded more than the declared, non-zero length.
C3_Witness ==
    /\ Returned
    /\ input.entry = "buffer"
    /\ result.kind = "BadLength"
    /\ input.L > 0
    /\ result.actual > result.expected

\* C8: stream_len returns the total length with the cursor where it was,
\* after a seek to the end and a seek back that is skipped exactly when the
\* cursor was at the end already; a failed query or seek returns the I/O error.
C8_StreamLen ==
    /\ (input.entry = "reader" /\ pc = "prefix") =>
        /\ expected_length = Len(input.content)
        /\ stream.pos = input.pos
        /\ seeks = IF input.pos = Len(input.content)
                   THEN << <<"End", 0>> >>
                   ELSE << <<"End", 0>>, <<"Start", input.pos>> >>
    /\ (input.entry = "reader" /\ Returned /\ digester = <<>>) => result = IoError

\* C8 witness: stream_len returned for a stream whose cursor was in the middle.
C8_Witness ==
    /\ input.entry = "reader"
    /\ pc = "prefix"
    /\ input.pos > 0
    /\ input.pos < Len(input.content)

RECURSIVE DecimalValue(_)
DecimalValue(ds) ==
    IF ds = <<>> THEN 0
    ELSE 10 * DecimalValue(SubSeq(ds, 1, Len(ds) - 1)) + (ds[Len(ds)] - 48)

\* fed is: the name, one space, the decimal digits of length (no leading
\* zero), one NUL, then content.
IsWireFormat(fed, name, length, content) ==
    LET n == Len(name)
        k == Len(fed) - n - 2 - Len(content)
        ds == SubSeq(fed, n + 2, n + 1 + k)
    IN /\ k >= 1
       /\ SubSeq(fed, 1, n) = as_bytes(name)
       /\ fed[n + 1] = 32
       /\ \A i \in 1..k : ds[i] \in 48..57
       /\ k > 1 => ds[1] # 48
       /\ DecimalValue(ds) = length
       /\ fed[n + 2 + k] = 0
       /\ SubSeq(fed, n + 3 + k, Len(fed)) = content

\* C9: the digest is fed the prefix first and then the content in read order;
\* on success the fed bytes are "<name> <length>\0" followed by the content,
\* and the Identifier is the digest of exactly that, however the reads split.
C9_WireFormat ==
    /\ pc = "prefix" => digester = <<>>
    /\ pc \in {"read", "check"} =>
        IsWireFormat(digester, ObjectTypeName(input.O), expected_length,
                     SubSeq(input.content, input.pos + 1, input.pos + amount_read))
    /\ (Returned /\ result.kind = "Ok") =>
        /\ IsWireFormat(digester, ObjectTypeName(input.O), Len(input.content), input.content)
        /\ result.gitoid = new_from_hash(finalize(input.H, digester))

\* C9 witness: a successful hash of content with a two-digit length.
C9_Witness ==
    /\ Returned
    /\ result.kind = "Ok"
    /\ Len(input.content) >= 10

\* C10: new_from_reader on a stream of length L with the cursor at p <= L
\* returns an Identifier exactly when p = 0, and fails with
\* BadLength{expected: L, actual: L - p} when p > 0.
C10_ReaderFromCursor ==
    (/\ Returned
     /\ input.entry = "reader"
     /\ result # IoError
     /\ input.pos <= Len(input.content))
    => /\ result.kind = "Ok" <=> input.pos = 0
       /\ input.pos > 0 =>
            result = BadLength(Len(input.content), Len(input.content) - input.pos)

\* C10 witness: a non-empty stream positioned at its end.
C10_Witness ==
    /\ Returned
    /\ input.entry = "reader"
    /\ input.pos = Len(input.content)
    /\ input.pos > 0
    /\ result.kind = "BadLength"

----------------------------------------------------------------------------
(* Properties of the URL codec (SpecUrl) *)

Parsed == upc = "done"

\* C2: round trip. The URL that url() produces for an Identifier, parsed with
\* the Identifier's own algorithm and object type, gives that Identifier back.
C2_RoundTrip ==
    (/\ Parsed
     /\ uin.entry = "gitoid"
     /\ uin.HE = uin.H
     /\ uin.OE = uin.O)
    => uresult = Ok(uin.gitoid)

\* C2 witness: a sha256 Identifier came back from its own URL.
C2_Witness ==
    /\ Parsed
    /\ uin.entry = "gitoid"
    /\ uin.H = "sha256"
    /\ uresult.kind = "Ok"
    /\ uresult.gitoid = uin.gitoid

\* The i-th path segment of the URL under parse, empty when there is none.
Seg(i) == IF i <= Len(uin.segs) THEN uin.segs[i] ELSE <<>>

EarlyKinds == {"InvalidScheme", "MissingObjectType", "MismatchedObjectType",
               "MissingHashAlgorithm", "MismatchedHashAlgorithm", "MissingHash"}

\* C4: the parser checks scheme, object type, algorithm and digest in this
\* order and reports the first check that fails: an absent or empty segment
\* is Missing..., a different one is Mismatched...{expected, observed}.
C4_FirstFailureWins ==
    (Parsed /\ uin.entry = "url") =>
        IF uin.scheme # GitoidScheme THEN uresult = InvalidScheme(url)
        ELSE IF Seg(1) = <<>> THEN uresult = MissingObjectType(url)
        ELSE IF Seg(1) # ObjectTypeName(uin.OE)
            THEN uresult = MismatchedObjectType(ObjectTypeName(uin.OE), Seg(1))
        ELSE IF Seg(2) = <<>> THEN uresult = MissingHashAlgorithm(url)
        ELSE IF Seg(2) # HashAlgorithmName(uin.HE)
            THEN uresult = MismatchedHashAlgorithm(HashAlgorithmName(uin.HE), Seg(2))
        ELSE IF Seg(3) = <<>> THEN uresult = MissingHash(url)
        ELSE uresult.kind \notin EarlyKinds

\* C4 witness: the object type is reported missing for a URL whose algorithm
\* and digest segments would fail too.
C4_Witness ==
    /\ Parsed
    /\ uin.entry = "url"
    /\ uresult.kind = "MissingObjectType"
    /\ Len(uin.segs) = 3
    /\ Seg(2) # HashAlgorithmName(uin.HE)
    /\ Seg(3) = <<>>

IsHexText(text) ==
    /\ text # <<>>
    /\ Len(text) % 2 = 0
    /\ \A i \in 1..Len(text) : text[i] \in Range(HexLower) \cup Range(UpperHex)

\* C5: when scheme, object type and algorithm match and the digest segment is
\* well-formed hex for a number of bytes other than the algorithm's output
\* size, the parse fails with UnexpectedHashLength{expected, observed}.
C5_UnexpectedHashLength ==
    (/\ Parsed
     /\ uin.entry = "url"
     /\ uin.scheme = GitoidScheme
     /\ Seg(1) = ObjectTypeName(uin.OE)
     /\ Seg(2) = HashAlgorithmName(uin.HE)
     /\ IsHexText(Seg(3))
     /\ Len(Seg(3)) \div 2 # output_size(uin.HE))
    => uresult = UnexpectedHashLength(output_size(uin.HE), Len(Seg(3)) \div 2)

====
